---- MODULE Spec2Model ----
(***************************************************************************)
(* A model of the bspline crate (src/src/lib.rs): the BSpline value, its   *)
(* constructor, the knot-domain query, the accessors and point evaluation  *)
(* (span search by upper_bounds, then de Boor's algorithm bottom-up).      *)
(*                                                                         *)
(* Scalars (the type F, and the control points T = F) are exact rationals  *)
(* extended with the three non-finite values a float has.  A scalar is a   *)
(* pair <<n, d>>: d > 0 and gcd(n, d) = 1 for a finite value n/d, and      *)
(* <<1,0>>, <<-1,0>>, <<0,0>> for +infinity, -infinity and NaN.  Rounding  *)
(* and the sign of zero are not modelled.                                  *)
(***************************************************************************)
EXTENDS Integers, Sequences, FiniteSets, TLC

VARIABLES
    checks,   \* TRUE: a build with debug assertions and overflow checks (dev profile)
    curves,   \* the BSpline values that exist (at most one: the caller's spline)
    last,     \* the last call made: its name, its arguments and its outcome
    kept,     \* a point call whose result the caller has kept: let a = spline.point(t)
    threads   \* per thread sharing &spline, the point call it is running and where it is

vars == <<checks, curves, last, kept, threads>>

(* ------------------------------ bounds --------------------------------- *)
MaxDegree == 2
MaxPoints == 4
MaxKnotVal == 2
TDen == 4
NumThreads == 2

(* ------------------------------ scalars -------------------------------- *)
NaN == <<0, 0>>
PInf == <<1, 0>>
NInf == <<-1, 0>>

Abs(x) == IF x < 0 THEN -x ELSE x
Sign(x) == IF x < 0 THEN -1 ELSE IF x > 0 THEN 1 ELSE 0

RECURSIVE GCD(_, _)
GCD(a, b) == IF b = 0 THEN a ELSE GCD(b, a % b)

\* the scalar n/d in lowest terms; d = 0 gives an infinity or NaN
Norm(n, d) ==
    IF d = 0 THEN <<Sign(n), 0>>
    ELSE LET g == GCD(Abs(n), Abs(d))
             s == IF d < 0 THEN -1 ELSE 1
         IN  <<(s * n) \div g, (s * d) \div g>>

Int2F(k) == <<k, 1>>
Zero == Int2F(0)
One == Int2F(1)

is_finite(x) == x[2] # 0

RNeg(x) == <<-x[1], x[2]>>

RAdd(x, y) ==
    IF x[2] = 0 /\ y[2] = 0
    THEN (IF x = y THEN x ELSE NaN)
    ELSE Norm(x[1] * y[2] + y[1] * x[2], x[2] * y[2])

RSub(x, y) == RAdd(x, RNeg(y))

RMul(x, y) == Norm(x[1] * y[1], x[2] * y[2])

RDiv(x, y) ==
    IF y[1] = 0 THEN Norm(x[1] * y[2], 0)
    ELSE Norm(x[1] * y[2] * Sign(y[1]), x[2] * Abs(y[1]))

\* PartialOrd: every comparison with NaN is false
RLt(x, y) ==
    /\ x # NaN
    /\ y # NaN
    /\ x # y
    /\ IF x[2] = 0 /\ y[2] = 0 THEN x = NInf
       ELSE x[1] * y[2] < y[1] * x[2]

RLe(x, y) == x # NaN /\ y # NaN /\ (x = y \/ RLt(x, y))
RGe(x, y) == RLe(y, x)

\* the blend with its two weights exchanged
interpolate_swapped(self, other, t) == RAdd(RMul(self, t), RMul(other, RSub(One, t)))

\* src/src/lib.rs:68-72  self * (1 - t) + other * t
interpolate(self, other, t) == RAdd(RMul(self, RSub(One, t)), RMul(other, t))

(* --------------------------- Option, outcomes -------------------------- *)
None == <<>>
Some(x) == <<x>>

\* what a call that panics leaves behind: the panic message and no value
Panic(why) == [kind |-> "panic", why |-> why]

TooFewPoints == "Too few control points for curve"
InvalidKnots == "Invalid number of knots"
UnwrapNone == "called Option::unwrap() on a None value"
DomainAssert == "assertion failed: t >= self.knot_domain().0 && t <= self.knot_domain().1"
AlphaAssert == "assertion failed: alpha.is_finite()"
SubOverflow == "attempt to subtract with overflow"
IndexOOB == "index out of bounds"

(* A usize is represented by its signed residue: 2^64 is beyond the model  *)
(* checker integers, so a difference that wraps below zero is kept as the  *)
(* negative number it is congruent to.  Such a value is at least 2^63      *)
(* and is therefore out of bounds for every Vec.  With overflow checks the *)
(* subtraction panics instead.                                             *)
Underflow(x) == x < 0

\* what an index expression that came out as x does for a Vec of length len
IndexFault(x, len) ==
    IF Underflow(x) THEN (IF checks THEN SubOverflow ELSE IndexOOB)
    ELSE IF x >= len THEN IndexOOB
    ELSE ""

(* ------------------------------ the sort ------------------------------- *)
\* a.partial_cmp(b): None when either is NaN
partial_cmp(a, b) ==
    IF a = NaN \/ b = NaN THEN None
    ELSE Some(IF RLt(a, b) THEN "Less" ELSE IF a = b THEN "Equal" ELSE "Greater")

\* insert x into the sorted run s, comparing from the right (stable)
RECURSIVE insert_tail(_, _)
insert_tail(s, x) ==
    IF s = <<>> THEN [ok |-> TRUE, v |-> <<x>>]
    ELSE LET c == partial_cmp(x, s[Len(s)])
         IN  IF c = None THEN [ok |-> FALSE, v |-> <<>>]
             ELSE IF c[1] = "Less"
             THEN LET r == insert_tail(SubSeq(s, 1, Len(s) - 1), x)
                  IN  IF r.ok THEN [ok |-> TRUE, v |-> Append(r.v, s[Len(s)])]
                      ELSE r
             ELSE [ok |-> TRUE, v |-> Append(s, x)]

RECURSIVE sort_from(_, _, _)
sort_from(data, k, acc) ==
    IF k > Len(data) THEN [ok |-> TRUE, v |-> acc]
    ELSE LET r == insert_tail(acc, data[k])
         IN  IF r.ok THEN sort_from(data, k + 1, r.v) ELSE r

\* a sort that also drops repeated values
RECURSIVE dedup(_)
dedup(s) ==
    IF Len(s) < 2 THEN s
    ELSE IF s[1] = s[2] THEN dedup(Tail(s))
    ELSE <<s[1]>> \o dedup(Tail(s))
sort_dedup(data) ==
    LET r == sort_from(data, 1, <<>>)
    IN  IF r.ok THEN [ok |-> TRUE, v |-> dedup(r.v)] ELSE r

\* the sort left out: the knots are stored as supplied
sort_skipped(data) == [ok |-> \A i \in DOMAIN data : data[i] # NaN, v |-> data]

\* knots.sort_by(|a, b| a.partial_cmp(b).unwrap()): the slices here are
\* short, for which the standard sort is an insertion sort; ok = FALSE when a
\* comparison unwraps None
sort_by(data) == sort_from(data, 1, <<>>)

(* --------------------------- the constructor --------------------------- *)
\* the constructor with the knot count checked before the point count
new_knots_first(degree, control_points, knots) ==
    IF Len(knots) # Len(control_points) + degree + 1
    THEN [kind |-> "panic", why |-> InvalidKnots, got |-> Len(knots),
          expected |-> Len(control_points) + degree + 1]
    ELSE IF Len(control_points) <= degree THEN Panic(TooFewPoints)
    ELSE LET sorted == sort_by(knots)
         IN  IF ~sorted.ok THEN Panic(UnwrapNone)
             ELSE [kind |-> "ok",
                   curve |-> [degree |-> degree,
                              control_points |-> control_points,
                              knots |-> sorted.v]]

\* the constructor accepting as many control points as the degree
new_at_least(degree, control_points, knots) ==
    IF Len(control_points) < degree THEN Panic(TooFewPoints)
    ELSE IF Len(knots) # Len(control_points) + degree + 1
    THEN [kind |-> "panic", why |-> InvalidKnots, got |-> Len(knots),
          expected |-> Len(control_points) + degree + 1]
    ELSE LET sorted == sort_by(knots)
         IN  IF ~sorted.ok THEN Panic(UnwrapNone)
             ELSE [kind |-> "ok",
                   curve |-> [degree |-> degree,
                              control_points |-> control_points,
                              knots |-> sorted.v]]

new(degree, control_points, knots) ==
    IF Len(control_points) <= degree THEN Panic(TooFewPoints)
    ELSE IF Len(knots) # Len(control_points) + degree + 1
    THEN [kind |-> "panic", why |-> InvalidKnots, got |-> Len(knots),
          expected |-> Len(control_points) + degree + 1]
    ELSE LET sorted == sort_by(knots)
         IN  IF ~sorted.ok THEN Panic(UnwrapNone)
             ELSE [kind |-> "ok",
                   curve |-> [degree |-> degree,
                              control_points |-> control_points,
                              knots |-> sorted.v]]

(* ----------------------------- knot_domain ----------------------------- *)
\* knot_domain with the upper index one too far
knot_domain_off(c) ==
    LET len == Len(c.knots)
        a == c.degree
        b == len - c.degree
    IN  IF IndexFault(a, len) # "" THEN Panic(IndexFault(a, len))
        ELSE IF IndexFault(b, len) # "" THEN Panic(IndexFault(b, len))
        ELSE [kind |-> "value", v |-> <<c.knots[a + 1], c.knots[b + 1]>>]

knot_domain(c) ==
    LET len == Len(c.knots)
        a == c.degree
        b == len - 1 - c.degree
    IN  IF IndexFault(a, len) # "" THEN Panic(IndexFault(a, len))
        ELSE IF IndexFault(b, len) # "" THEN Panic(IndexFault(b, len))
        ELSE [kind |-> "value", v |-> <<c.knots[a + 1], c.knots[b + 1]>>]

(* ----------------------------- upper_bounds ---------------------------- *)
\* the loop moving first to it instead of past it
RECURSIVE ub_loop_noskip(_, _, _, _, _)
ub_loop_noskip(data, value, first, count, iters) ==
    IF count > 0
    THEN LET step == count \div 2
             it == first + step
         IN  IF ~RLt(value, data[it + 1])
             THEN ub_loop_noskip(data, value, it, count - (step + 1), iters + 1)
             ELSE ub_loop_noskip(data, value, first, step, iters + 1)
    ELSE [first |-> first, iters |-> iters]

\* the loop with a step of 0: a scan from the left, one element at a time
RECURSIVE ub_loop_scan(_, _, _, _, _)
ub_loop_scan(data, value, first, count, iters) ==
    IF count > 0
    THEN IF ~RLt(value, data[first + 1])
         THEN ub_loop_scan(data, value, first + 1, count - 1, iters + 1)
         ELSE ub_loop_scan(data, value, first, 0, iters + 1)
    ELSE [first |-> first, iters |-> iters]

\* the while loop of upper_bounds; iters counts its iterations
RECURSIVE ub_loop(_, _, _, _, _)
ub_loop(data, value, first, count, iters) ==
    IF count > 0
    THEN LET step == count \div 2
             it == first + step
         IN  IF ~RLt(value, data[it + 1])
             THEN ub_loop(data, value, it + 1, count - (step + 1), iters + 1)
             ELSE ub_loop(data, value, first, step, iters + 1)
    ELSE [first |-> first, iters |-> iters]

\* the search for the first element not less than the value
RECURSIVE lb_loop(_, _, _, _)
lb_loop(data, value, first, count) ==
    IF count > 0
    THEN LET step == count \div 2
             it == first + step
         IN  IF RLt(data[it + 1], value)
             THEN lb_loop(data, value, it + 1, count - (step + 1))
             ELSE lb_loop(data, value, first, step)
    ELSE first
lower_bounds(data, value) ==
    LET first == lb_loop(data, value, 0, Len(data))
    IN  IF first = Len(data) THEN None ELSE Some(first)

upper_bounds(data, value) ==
    LET first == ub_loop(data, value, 0, Len(data), 0).first
    IN  IF first = Len(data) THEN None ELSE Some(first)

(* -------------------------- de_boor_iterative -------------------------- *)
\* the state of one de Boor step: the scratch buffer tmp, the panic that
\* ended it (why, "" while it runs), and what it has done so far:
\* zero_den: a blend denominator was zero; nonfinite: an alpha was not
\* finite; den_pos: every denominator was above zero; alpha_01: every alpha
\* was within [0,1]; blends: blends completed; cp, kn: the control-point and
\* knot indices read (0-based)
Fresh ==
    [tmp |-> <<>>, why |-> "", zero_den |-> FALSE, nonfinite |-> FALSE,
     den_pos |-> TRUE, alpha_01 |-> TRUE, blends |-> 0, cp |-> {}, kn |-> {}]

\* the outcome of an evaluation that has not reached the span search
NoEval ==
    [kind |-> "panic", why |-> "", v |-> None, zero_den |-> FALSE,
     nonfinite |-> FALSE, den_pos |-> TRUE, alpha_01 |-> TRUE, blends |-> 0,
     cp |-> {}, kn |-> {}, buf |-> 0, branch |-> "", i |-> 0, x |-> None,
     iters |-> 0]

\* the return of de_boor_iterative from its final state: tmp[0], or the panic
Outcome(st) ==
    [NoEval EXCEPT !.kind = IF st.why = "" THEN "value" ELSE "panic",
                   !.why = st.why,
                   !.v = IF st.why = "" THEN st.tmp[1] ELSE None,
                   !.zero_den = st.zero_den, !.nonfinite = st.nonfinite,
                   !.den_pos = st.den_pos, !.alpha_01 = st.alpha_01,
                   !.blends = st.blends, !.cp = st.cp, !.kn = st.kn,
                   !.buf = Len(st.tmp)]

\* the seeding loop with its window one control point to the right
RECURSIVE seed_shift(_, _, _, _)
seed_shift(c, i_start, j, st) ==
    IF j > c.degree THEN st
    ELSE LET p == j + i_start - c.degree
             f == IndexFault(p, Len(c.control_points))
         IN  IF f # "" THEN [st EXCEPT !.why = f]
             ELSE seed_shift(c, i_start, j + 1,
                             [st EXCEPT !.tmp = Append(@, c.control_points[p + 1]),
                                        !.cp = @ \cup {p}])

\* the seeding loop, from j on: tmp.push(self.control_points[j + i_start - degree - 1])
RECURSIVE seed(_, _, _, _)
seed(c, i_start, j, st) ==
    IF j > c.degree THEN st
    ELSE LET p == j + i_start - c.degree - 1
             f == IndexFault(p, Len(c.control_points))
         IN  IF f # "" THEN [st EXCEPT !.why = f]
             ELSE seed(c, i_start, j + 1,
                       [st EXCEPT !.tmp = Append(@, c.control_points[p + 1]),
                                  !.cp = @ \cup {p}])

\* the assertion with its condition dropped
alpha_unchecked(alpha) == TRUE

\* the condition of debug_assert!(alpha.is_finite())
alpha_ok(alpha) == is_finite(alpha)

\* the blend reading knots[i] and knots[i + degree - k + 1]: one knot to the right
blend_step_right(c, t, i_start, lvl, j, st) ==
    LET k == lvl + 1
        i == j + k + i_start - c.degree
        lo == i
        hi == i + c.degree - k + 1
        len == Len(c.knots)
    IN  IF checks /\ Underflow(i) THEN [st EXCEPT !.why = SubOverflow]
        ELSE IF IndexFault(lo, len) # "" THEN [st EXCEPT !.why = IndexFault(lo, len)]
        ELSE IF IndexFault(hi, len) # ""
        THEN [st EXCEPT !.why = IndexFault(hi, len), !.kn = @ \cup {lo}]
        ELSE LET den == RSub(c.knots[hi + 1], c.knots[lo + 1])
                 alpha == RDiv(RSub(t, c.knots[lo + 1]), den)
                 seen == [st EXCEPT !.zero_den = @ \/ den = Zero,
                                    !.nonfinite = @ \/ ~is_finite(alpha),
                                    !.den_pos = @ /\ RLt(Zero, den),
                                    !.alpha_01 = @ /\ RLe(Zero, alpha) /\ RLe(alpha, One),
                                    !.kn = @ \cup {lo, hi}]
             IN  IF checks /\ ~alpha_ok(alpha)
                 THEN [seen EXCEPT !.why = AlphaAssert]
                 ELSE [seen EXCEPT !.tmp[j + 1] =
                                       interpolate(st.tmp[j + 1], st.tmp[j + 2], alpha),
                                   !.blends = @ + 1]

\* the body of the inner loop: blend j of pass lvl (k = lvl + 1 in the code)
blend_step(c, t, i_start, lvl, j, st) ==
    LET k == lvl + 1
        i == j + k + i_start - c.degree
        lo == i - 1
        hi == i + c.degree - k
        len == Len(c.knots)
    IN  IF checks /\ Underflow(i) THEN [st EXCEPT !.why = SubOverflow]
        ELSE IF IndexFault(lo, len) # "" THEN [st EXCEPT !.why = IndexFault(lo, len)]
        ELSE IF IndexFault(hi, len) # ""
        THEN [st EXCEPT !.why = IndexFault(hi, len), !.kn = @ \cup {lo}]
        ELSE LET den == RSub(c.knots[hi + 1], c.knots[lo + 1])
                 alpha == RDiv(RSub(t, c.knots[lo + 1]), den)
                 seen == [st EXCEPT !.zero_den = @ \/ den = Zero,
                                    !.nonfinite = @ \/ ~is_finite(alpha),
                                    !.den_pos = @ /\ RLt(Zero, den),
                                    !.alpha_01 = @ /\ RLe(Zero, alpha) /\ RLe(alpha, One),
                                    !.kn = @ \cup {lo, hi}]
             IN  IF checks /\ ~alpha_ok(alpha)
                 THEN [seen EXCEPT !.why = AlphaAssert]
                 ELSE [seen EXCEPT !.tmp[j + 1] =
                                       interpolate(st.tmp[j + 1], st.tmp[j + 2], alpha),
                                   !.blends = @ + 1]

\* the two blend loops, from blend j of pass lvl on
RECURSIVE blend(_, _, _, _, _, _)
blend(c, t, i_start, lvl, j, st) ==
    IF st.why # "" \/ lvl >= c.degree THEN st
    ELSE IF j >= c.degree - lvl THEN blend(c, t, i_start, lvl + 1, 0, st)
    ELSE blend(c, t, i_start, lvl, j + 1, blend_step(c, t, i_start, lvl, j, st))

de_boor_iterative(c, t, i_start) ==
    Outcome(blend(c, t, i_start, 0, 0, seed(c, i_start, 0, Fresh)))

(* -------------------------------- point -------------------------------- *)
\* the span index with the two clamped arms one short
span_index_short(c, x) ==
    IF x = None THEN Len(c.knots) - c.degree - 2
    ELSE IF x[1] = 0 THEN c.degree
    ELSE IF x[1] >= Len(c.knots) - c.degree - 1 THEN Len(c.knots) - c.degree - 2
    ELSE x[1]

\* the arm of the match in point that the span search result takes
span_branch(c, x) ==
    IF x = None THEN "none"
    ELSE IF x[1] = 0 THEN "zero"
    ELSE IF x[1] >= Len(c.knots) - c.degree - 1 THEN "clamp"
    ELSE "found"

\* the span index without the arm that clamps a found index
span_index_unclamped(c, x) ==
    IF x = None THEN Len(c.knots) - c.degree - 1
    ELSE IF x[1] = 0 THEN c.degree
    ELSE x[1]

\* the span index with a found index x taken as the span start x - 1
span_index_prev(c, x) ==
    IF x = None THEN Len(c.knots) - c.degree - 1
    ELSE IF x[1] = 0 THEN c.degree
    ELSE IF x[1] >= Len(c.knots) - c.degree - 1 THEN Len(c.knots) - c.degree - 1
    ELSE x[1] - 1

\* the span index with the arm for index 0 giving the first whole span
span_index_first(c, x) ==
    IF x = None THEN Len(c.knots) - c.degree - 1
    ELSE IF x[1] = 0 THEN c.degree + 1
    ELSE IF x[1] >= Len(c.knots) - c.degree - 1 THEN Len(c.knots) - c.degree - 1
    ELSE x[1]

span_index(c, x) ==
    IF x = None THEN Len(c.knots) - c.degree - 1
    ELSE IF x[1] = 0 THEN c.degree
    ELSE IF x[1] >= Len(c.knots) - c.degree - 1 THEN Len(c.knots) - c.degree - 1
    ELSE x[1]

\* the domain condition with the closed interval taken as open
domain_open(t, dom) == RLt(dom[1], t) /\ RLt(t, dom[2])

\* the condition of the debug_assert! in point, dom being knot_domain()
domain_ok(t, dom) == RGe(t, dom[1]) /\ RLe(t, dom[2])

\* the outcome of point(t), with the span search it went through: x is what
\* upper_bounds returned after iters iterations, branch the match arm and i
\* the index handed to de_boor_iterative
point(c, t) ==
    LET dom == knot_domain(c)
        x == upper_bounds(c.knots, t)
        d == de_boor_iterative(c, t, span_index(c, x))
    IN  IF checks /\ dom.kind = "panic"
        THEN [NoEval EXCEPT !.why = dom.why]
        ELSE IF checks /\ ~domain_ok(t, dom.v)
        THEN [NoEval EXCEPT !.why = DomainAssert]
        ELSE [d EXCEPT !.branch = span_branch(c, x), !.i = span_index(c, x),
                       !.x = x,
                       !.iters = ub_loop(c.knots, t, 0, Len(c.knots), 0).iters]

(* ------------------------------ accessors ------------------------------ *)
\* a slice iterator created at position 0 and run to its end
RECURSIVE iter_from(_, _)
iter_from(data, pos) ==
    IF pos >= Len(data) THEN <<>> ELSE <<data[pos + 1]>> \o iter_from(data, pos + 1)

control_points(c) == iter_from(c.control_points, 0)
knots(c) == iter_from(c.knots, 0)

(* ------------------------------- inputs -------------------------------- *)
MaxKnots == MaxPoints + MaxDegree + 1

\* the control-point vectors tried, of length n: the squares 1, 4, 9, ...
\* (pairwise distinct) and the unit vector of the middle point
PointInputs(n) ==
    {[i \in 1..n |-> Int2F(i * i)],
     [i \in 1..n |-> Int2F(IF i = (n + 1) \div 2 THEN 1 ELSE 0)]}

\* the non-decreasing sequences of length len over lo..MaxKnotVal
RECURSIVE NonDecr(_, _)
NonDecr(len, lo) ==
    IF len = 0 THEN {<<>>}
    ELSE UNION {{<<Int2F(v)>> \o s : s \in NonDecr(len - 1, v)} : v \in lo..MaxKnotVal}

Reverse(s) == [i \in 1..Len(s) |-> s[Len(s) + 1 - i]]
Rotate(s) == IF s = <<>> THEN s ELSE Tail(s) \o <<Head(s)>>

\* the knot vectors tried for a constructor call with this degree and these
\* points: of the expected length, every non-decreasing vector, the same
\* reversed and rotated (unsorted input), and one holding a NaN; of every
\* other length (only the length is read then) the all-zero vector
KnotInputs(degree, points) ==
    LET expected == Len(points) + degree + 1
        sorted == IF Len(points) > degree THEN NonDecr(expected, 0) ELSE {}
    IN  sorted
          \cup {Reverse(s) : s \in sorted}
          \cup {Rotate(s) : s \in sorted}
          \cup {[i \in 1..expected |-> IF i = 2 THEN NaN ELSE Zero]}
          \cup {[i \in 1..n |-> Zero] : n \in 0..MaxKnots}

\* the parameters tried on curve c: the multiples of 1/TDen from just below
\* its first knot to just above its last (its knots are integers)
TVals(c) ==
    {Norm(k, TDen) : k \in (c.knots[1][1] * TDen - 1)..(c.knots[Len(c.knots)][1] * TDen + 1)}

(* ------------------------------- actions ------------------------------- *)
NoCall == [op |-> "none", args |-> <<>>, out |-> <<>>]

\* what a constructor call leaves in last: the panic, or ok without the value
NewOut(r) == IF r.kind = "ok" THEN [kind |-> "ok"] ELSE r

\* the threads that share the curve, and a thread that is not in a call
Threads == 1..NumThreads
Idle == [pc |-> "idle", t |-> Zero, i |-> 0, lvl |-> 0, j |-> 0, st |-> Fresh,
         out |-> NoEval]

\* nothing kept by the caller, no call in progress on any thread
Quiet ==
    /\ kept = NoCall
    /\ threads = [th \in Threads |-> Idle]

Init ==
    /\ checks \in BOOLEAN
    /\ curves = {}
    /\ last = NoCall
    /\ Quiet

\* let spline = BSpline::new(degree, points, knots), the first call of the program
New ==
    /\ curves = {}
    /\ last = NoCall
    /\ \E degree \in 0..MaxDegree, n \in 0..MaxPoints :
         \E points \in PointInputs(n) :
           \E kn \in KnotInputs(degree, points) :
             LET r == new(degree, points, kn)
             IN  /\ curves' = IF r.kind = "ok" THEN {r.curve} ELSE {}
                 /\ last' = [op |-> "new",
                             args |-> [degree |-> degree, control_points |-> points,
                                       knots |-> kn],
                             out |-> NewOut(r)]
    /\ UNCHANGED <<checks, kept, threads>>

\* point taking the curve by value: a call that panics drops it
PointConsuming ==
    \E c \in curves :
      \E t \in TVals(c) :
        /\ last' = [op |-> "point", args |-> t, out |-> point(c, t)]
        /\ curves' = IF point(c, t).kind = "panic" THEN {} ELSE curves
        /\ UNCHANGED <<checks, kept, threads>>

\* point taking &mut self and leaving the control points in reverse order
PointReversing ==
    \E c \in curves :
      \E t \in TVals(c) :
        /\ last' = [op |-> "point", args |-> t, out |-> point(c, t)]
        /\ curves' = {[c EXCEPT !.control_points = Reverse(@)]}
        /\ UNCHANGED <<checks, kept, threads>>

Point ==
    /\ \E c \in curves :
         \E t \in TVals(c) :
           last' = [op |-> "point", args |-> t, out |-> point(c, t)]
    /\ UNCHANGED <<checks, curves, kept, threads>>

KnotDomain ==
    /\ \E c \in curves :
         last' = [op |-> "knot_domain", args |-> <<>>, out |-> knot_domain(c)]
    /\ UNCHANGED <<checks, curves, kept, threads>>

ControlPoints ==
    /\ \E c \in curves :
         last' = [op |-> "control_points", args |-> <<>>, out |-> control_points(c)]
    /\ UNCHANGED <<checks, curves, kept, threads>>

Knots ==
    /\ \E c \in curves :
         last' = [op |-> "knots", args |-> <<>>, out |-> knots(c)]
    /\ UNCHANGED <<checks, curves, kept, threads>>

Next == New \/ Point \/ KnotDomain \/ ControlPoints \/ Knots

Spec == Init /\ [][Next]_vars

(* ----------------- evaluation of the reference curves ------------------ *)
F(ints) == [i \in 1..Len(ints) |-> Int2F(ints[i])]

\* the four curves of src/tests/basic.rs, as passed to new
RefArgs ==
    {[degree |-> 1, control_points |-> F(<<0, 1>>), knots |-> F(<<0, 0, 1, 1>>)],
     [degree |-> 2, control_points |-> F(<<0, 0, 1, 0, 0>>),
      knots |-> F(<<0, 0, 0, 1, 2, 3, 3, 3>>)],
     [degree |-> 3, control_points |-> F(<<0, 0, 0, 6, 0, 0, 0>>),
      knots |-> F(<<-2, -2, -2, -2, -1, 0, 1, 2, 2, 2, 2>>)],
     [degree |-> 4, control_points |-> F(<<0, 0, 0, 0, 1, 0, 0, 0, 0>>),
      knots |-> F(<<0, 0, 0, 0, 0, 1, 2, 3, 4, 5, 5, 5, 5, 5>>)]}

\* the state after let spline = BSpline::new(a.degree, a.control_points, a.knots)
Constructed(a) ==
    LET r == new(a.degree, a.control_points, a.knots)
    IN  /\ curves = IF r.kind = "ok" THEN {r.curve} ELSE {}
        /\ last = [op |-> "new", args |-> a, out |-> NewOut(r)]
        /\ Quiet

InitRef ==
    /\ checks \in BOOLEAN
    /\ \E a \in RefArgs : Constructed(a)

\* the calls on a constructed curve
NextEval == Point \/ KnotDomain \/ ControlPoints \/ Knots

SpecRef == InitRef /\ [][NextEval]_vars

(* ------------------ evaluation of the linear curves -------------------- *)
LinMaxP == 2

\* degree 1, control points p0 and p1, knots [0, 0, 1, 1]
LinArgs ==
    {[degree |-> 1, control_points |-> F(<<p0, p1>>), knots |-> F(<<0, 0, 1, 1>>)] :
        p0 \in -LinMaxP..LinMaxP, p1 \in -LinMaxP..LinMaxP}

InitLin ==
    /\ checks \in BOOLEAN
    /\ \E a \in LinArgs : Constructed(a)

SpecLin == InitLin /\ [][NextEval]_vars

(* ------------------- a caller that keeps a result ---------------------- *)
\* let a = spline.point(t): the caller keeps what the call just made
\* returned; last then shows this step, so that a later point in last is
\* a later call
Keep ==
    /\ last.op = "point"
    /\ kept = NoCall
    /\ kept' = last
    /\ last' = [op |-> "keep", args |-> <<>>, out |-> <<>>]
    /\ UNCHANGED <<checks, curves, threads>>

\* curves with degree + 1 control points 1, 4, 9, ... over the knot vectors
\* of 0s followed by 1s: all-equal knots, clamped ends, zero-width end spans
StepArgs ==
    {[degree |-> d, control_points |-> [i \in 1..(d + 1) |-> Int2F(i * i)],
      knots |-> [i \in 1..(2 * d + 2) |-> IF i <= z THEN Zero ELSE One]] :
        d \in 0..MaxDegree, z \in 0..(2 * MaxDegree + 2)}

InitKeep ==
    /\ checks \in BOOLEAN
    /\ \E a \in RefArgs \cup StepArgs : Constructed(a)

SpecKeep == InitKeep /\ [][NextEval \/ Keep]_vars

(* ------------------ threads sharing one curve -------------------------- *)
\* one scratch buffer for all threads (a static), the one of thread 1
buffer_shared(th) == 1

\* the scratch buffer a call uses: the Vec it allocates itself
buffer_of(th) == th

Buf(th) == threads[buffer_of(th)].st.tmp
\* thread th becomes me, the de Boor state st of its call going to me except
\* for the scratch buffer, which goes where the call keeps it
Stepped(th, me, st) ==
    [[threads EXCEPT ![th] = [me EXCEPT !.st = [st EXCEPT !.tmp = threads[th].st.tmp]]]
        EXCEPT ![buffer_of(th)].st.tmp = st.tmp]

\* the parameters the threads try: below the domain, its two ends, its middle
ShareTVals(c) ==
    {RSub(c.knots[c.degree + 1], One), c.knots[c.degree + 1],
     RDiv(RAdd(c.knots[c.degree + 1], c.knots[Len(c.knots) - c.degree]), Int2F(2)),
     c.knots[Len(c.knots) - c.degree]}

\* thread th calls spline.point(t), once
Call(th) ==
    /\ threads[th].pc = "idle"
    /\ \E c \in curves :
         \E t \in ShareTVals(c) :
           threads' = [threads EXCEPT ![th] = [Idle EXCEPT !.pc = "search", !.t = t]]
    /\ UNCHANGED <<checks, curves, last, kept>>

\* the domain assertion and the span search of the call of th
Search(th) ==
    /\ threads[th].pc = "search"
    /\ \E c \in curves :
         LET me == threads[th]
             dom == knot_domain(c)
             x == upper_bounds(c.knots, me.t)
         IN  threads' = [threads EXCEPT ![th] =
                IF checks /\ dom.kind = "panic"
                THEN [me EXCEPT !.pc = "done", !.out = [NoEval EXCEPT !.why = dom.why]]
                ELSE IF checks /\ ~domain_ok(me.t, dom.v)
                THEN [me EXCEPT !.pc = "done", !.out = [NoEval EXCEPT !.why = DomainAssert]]
                ELSE [me EXCEPT !.pc = "seed", !.i = span_index(c, x),
                                !.out = [NoEval EXCEPT
                                           !.branch = span_branch(c, x),
                                           !.i = span_index(c, x), !.x = x,
                                           !.iters = ub_loop(c.knots, me.t, 0,
                                                             Len(c.knots), 0).iters]]]
    /\ UNCHANGED <<checks, curves, last, kept>>

\* what a call of th returns from the de Boor state st
Returned(me, st) ==
    [Outcome(st) EXCEPT !.branch = me.out.branch, !.i = me.out.i, !.x = me.out.x,
                        !.iters = me.out.iters]

\* the seeding loop of the call of th, into its scratch buffer
Seed(th) ==
    /\ threads[th].pc = "seed"
    /\ \E c \in curves :
         LET me == threads[th]
             st == seed(c, me.i, 0, Fresh)
         IN  threads' = Stepped(th,
                IF st.why # ""
                THEN [me EXCEPT !.pc = "done", !.out = Returned(me, st)]
                ELSE [me EXCEPT !.pc = "blend"], st)
    /\ UNCHANGED <<checks, curves, last, kept>>

\* one blend of the call of th: the inner loop body at (lvl, j), on its
\* scratch buffer
Blend(th) ==
    /\ threads[th].pc = "blend"
    /\ \E c \in curves :
         LET me == threads[th]
             st == blend_step(c, me.t, me.i, me.lvl, me.j,
                              [me.st EXCEPT !.tmp = Buf(th)])
             more == me.j + 1 < c.degree - me.lvl
         IN  /\ me.lvl < c.degree
             /\ threads' = Stepped(th,
                   IF st.why # ""
                   THEN [me EXCEPT !.pc = "done", !.out = Returned(me, st)]
                   ELSE [me EXCEPT !.lvl = IF more THEN @ ELSE @ + 1,
                                   !.j = IF more THEN @ + 1 ELSE 0], st)
    /\ UNCHANGED <<checks, curves, last, kept>>

\* the call of th returns tmp[0] once both loops have ended
Return(th) ==
    /\ threads[th].pc = "blend"
    /\ \E c \in curves :
         LET me == threads[th]
             st == [me.st EXCEPT !.tmp = Buf(th)]
         IN  /\ me.lvl >= c.degree
             /\ threads' = Stepped(th, [me EXCEPT !.pc = "done", !.out = Returned(me, st)], st)
    /\ UNCHANGED <<checks, curves, last, kept>>

\* the curves the threads share: the linear and the quadratic test curve
\* and the linear curve with all knots equal
ShareArgs ==
    {a \in RefArgs : a.degree <= 2}
      \cup {[degree |-> 1, control_points |-> F(<<1, 4>>), knots |-> F(<<0, 0, 0, 0>>)]}

InitShare ==
    /\ checks \in BOOLEAN
    /\ \E a \in ShareArgs : Constructed(a)

NextShare ==
    \E th \in Threads : Call(th) \/ Search(th) \/ Seed(th) \/ Blend(th) \/ Return(th)

SpecShare == InitShare /\ [][NextShare]_vars

(* ------------------------ upper_bounds on its own ---------------------- *)
\* the slices searched: every non-decreasing sequence over 0..MaxKnotVal of
\* length 0..MaxKnots; the values sought: the halves from -1/2 to
\* MaxKnotVal + 1/2
SearchInputs ==
    {[data |-> data, value |-> Norm(k, 2)] :
        data \in UNION {NonDecr(len, 0) : len \in 0..MaxKnots},
        k \in -1..(2 * MaxKnotVal + 1)}

InitSearch ==
    /\ checks \in BOOLEAN
    /\ curves = {}
    /\ \E a \in SearchInputs : last = [op |-> "search", args |-> a, out |-> <<>>]
    /\ Quiet

\* upper_bounds(&data[..], &value)
UpperBounds ==
    /\ last.op = "search"
    /\ last' = [op |-> "upper_bounds", args |-> last.args,
                out |-> [r |-> upper_bounds(last.args.data, last.args.value),
                         iters |-> ub_loop(last.args.data, last.args.value, 0,
                                           Len(last.args.data), 0).iters]]
    /\ UNCHANGED <<checks, curves, kept, threads>>

SpecSearch == InitSearch /\ [][UpperBounds]_vars

(* ============================== the claims ============================= *)
\* helpers of the statements: they read the curve, never the operators above
Lo(c) == c.knots[c.degree + 1]
Hi(c) == c.knots[Len(c.knots) - c.degree]
NumPoints(c) == Len(c.control_points)
IsNonDecr(s) == \A i \in 1..(Len(s) - 1) : RLe(s[i], s[i + 1])
Count(s, v) == Cardinality({i \in DOMAIN s : s[i] = v})
IsPermOf(s, u) ==
    /\ Len(s) = Len(u)
    /\ \A i \in DOMAIN u : Count(s, u[i]) = Count(u, u[i])
RefCurve(d) ==
    CHOOSE c \in {[degree |-> a.degree, control_points |-> a.control_points,
                   knots |-> a.knots] : a \in RefArgs} : c.degree = d
\* the last call was point(t) on curve c and returned v
PointGave(c, t, v) ==
    (c \in curves /\ last.op = "point" /\ last.args = t)
        => (last.out.kind = "value" /\ last.out.v = v)

\* C1: on the four reference curves of the tests, in exact arithmetic,
\* point(1/2) = 1/2 (degree 1), point(3/2) = 3/4 (degree 2), point(0) = 4
\* (degree 3), point(5/2) = 115/192 (degree 4), and point at both ends of
\* the knot domain is 0, except on the degree-1 curve where it is 0 and 1.
C1_ReferenceValues ==
    /\ PointGave(RefCurve(1), Norm(1, 2), Norm(1, 2))
    /\ PointGave(RefCurve(2), Norm(3, 2), Norm(3, 4))
    /\ PointGave(RefCurve(3), Int2F(0), Int2F(4))
    /\ PointGave(RefCurve(4), Norm(5, 2), Norm(115, 192))
    /\ PointGave(RefCurve(1), Int2F(0), Int2F(0))
    /\ PointGave(RefCurve(1), Int2F(1), Int2F(1))
    /\ PointGave(RefCurve(2), Int2F(0), Int2F(0))
    /\ PointGave(RefCurve(2), Int2F(3), Int2F(0))
    /\ PointGave(RefCurve(3), Int2F(-2), Int2F(0))
    /\ PointGave(RefCurve(3), Int2F(2), Int2F(0))
    /\ PointGave(RefCurve(4), Int2F(0), Int2F(0))
    /\ PointGave(RefCurve(4), Int2F(5), Int2F(0))
    /\ \A c \in curves : c = RefCurve(c.degree) /\ Lo(c) = c.knots[1]
                          /\ Hi(c) = c.knots[Len(c.knots)]

C1_Witness ==
    /\ RefCurve(4) \in curves
    /\ last.op = "point"
    /\ last.args = Norm(5, 2)
    /\ last.out.kind = "value"
    /\ last.out.v = <<115, 192>>

\* every knot and every control point of c is a finite number
AllFinite(c) ==
    /\ \A i \in DOMAIN c.knots : is_finite(c.knots[i])
    /\ \A i \in DOMAIN c.control_points : is_finite(c.control_points[i])
\* the first degree+1 knots are equal and strictly below the next one
ClampedLo(c) ==
    /\ AllFinite(c)
    /\ c.knots[1] = c.knots[c.degree + 1]
    /\ RLt(c.knots[c.degree + 1], c.knots[c.degree + 2])
\* the last degree+1 knots are equal and strictly above the one before them
ClampedHi(c) ==
    /\ AllFinite(c)
    /\ c.knots[Len(c.knots)] = c.knots[NumPoints(c) + 1]
    /\ RLt(c.knots[NumPoints(c)], c.knots[NumPoints(c) + 1])

\* C2 as claimed: on every accepted curve point(knot_domain().0) is the first
\* control point and point(knot_domain().1) is the last one.
C2_EndpointsAnyCurve ==
    \A c \in curves :
        /\ PointGave(c, Lo(c), c.control_points[1])
        /\ PointGave(c, Hi(c), c.control_points[NumPoints(c)])

\* C2, amended: on an accepted curve of finite knots and control points,
\* point(knot_domain().0) is the first control point when the first degree+1
\* knots are equal and strictly below the next knot, and
\* point(knot_domain().1) is the last control point when the last degree+1
\* knots are equal and strictly above the knot before them.
C2_EndpointsClamped ==
    \A c \in curves :
        /\ ClampedLo(c) => PointGave(c, Lo(c), c.control_points[1])
        /\ ClampedHi(c) => PointGave(c, Hi(c), c.control_points[NumPoints(c)])

C2_Witness ==
    \E c \in curves :
        /\ c.degree = 2 /\ NumPoints(c) = 4
        /\ ClampedLo(c) /\ ClampedHi(c)
        /\ c.control_points[1] # c.control_points[4]
        /\ last.op = "point" /\ last.args = Hi(c)
        /\ last.out.kind = "value" /\ last.out.v = c.control_points[4]

\* C3: on the degree-1 curve with control points p0, p1 and knots
\* [0,0,1,1], point(t) = p0*(1-t) + p1*t for every t in [0,1]; t = 0 gives
\* p0, and t = 1 gives p1 through the arm of the span search where no knot
\* exceeds t.
C3_LinearExact ==
    \A c \in curves :
        (/\ c.degree = 1 /\ c.knots = F(<<0, 0, 1, 1>>) /\ NumPoints(c) = 2
         /\ last.op = "point"
         /\ RLe(Zero, last.args) /\ RLe(last.args, One))
        => LET p0 == c.control_points[1][1]
               p1 == c.control_points[2][1]
               tn == last.args[1]
               td == last.args[2]
           IN  /\ last.out.kind = "value"
               /\ last.out.v = Norm(p0 * (td - tn) + p1 * tn, td)
               /\ last.args = Zero => last.out.v = Int2F(p0)
               /\ last.args = One => (last.out.v = Int2F(p1) /\ last.out.branch = "none")

C3_Witness ==
    \E c \in curves :
        /\ c.degree = 1 /\ c.knots = F(<<0, 0, 1, 1>>)
        /\ c.control_points = F(<<-1, 2>>)
        /\ last.op = "point" /\ last.args = One
        /\ last.out.branch = "none" /\ last.out.v = Int2F(2)

HasNaN(s) == \E i \in DOMAIN s : s[i] = NaN

\* C4: new(degree, points, knots) is decided by the two lengths in this
\* order: points.len() <= degree fails with the control-point-count error
\* whatever the knots; otherwise knots.len() # points.len() + degree + 1
\* fails with the knot-count error carrying the received and the expected
\* length; otherwise, all knots being comparable, it returns a curve.
C4_NewOutcome ==
    last.op = "new" =>
        LET a == last.args
            expected == Len(a.control_points) + a.degree + 1
        IN  IF Len(a.control_points) <= a.degree
            THEN last.out = Panic(TooFewPoints) /\ curves = {}
            ELSE IF Len(a.knots) # expected
            THEN /\ last.out.kind = "panic" /\ last.out.why = InvalidKnots
                 /\ last.out.got = Len(a.knots) /\ last.out.expected = expected
                 /\ curves = {}
            ELSE ~HasNaN(a.knots) => (last.out.kind = "ok" /\ Cardinality(curves) = 1)

\* both lengths are wrong and the control-point-count error is the one raised
C4_Witness ==
    /\ last.op = "new"
    /\ Len(last.args.control_points) <= last.args.degree
    /\ Len(last.args.control_points) > 0
    /\ Len(last.args.knots) # Len(last.args.control_points) + last.args.degree + 1
    /\ last.out = Panic(TooFewPoints)

\* C5: in every reachable state every curve that exists has
\* control_points.len() > degree, knots.len() = control_points.len() +
\* degree + 1 and non-decreasing knots, and a failed construction leaves no
\* curve value.
C5_NoInvalidCurve ==
    /\ \A c \in curves :
         /\ NumPoints(c) > c.degree
         /\ Len(c.knots) = NumPoints(c) + c.degree + 1
         /\ IsNonDecr(c.knots)
    /\ (last.op = "new" /\ last.out.kind = "panic") => curves = {}
    /\ last.op \in {"point", "knot_domain", "control_points", "knots"} => curves # {}

\* a curve built from unsorted knots has been evaluated out of its domain
C5_Witness ==
    \E c \in curves :
        /\ NumPoints(c) = c.degree + 1
        /\ c.knots[1] # c.knots[Len(c.knots)]
        /\ last.op = "point" /\ last.out.kind = "panic"

\* what C6 says of one step
C6_Step ==
    /\ (last'.op = "new" /\ last'.out.kind = "ok") =>
         \E c \in curves' :
            /\ curves' = {c}
            /\ c.degree = last'.args.degree
            /\ c.control_points = last'.args.control_points
            /\ IsNonDecr(c.knots)
            /\ IsPermOf(c.knots, last'.args.knots)
    /\ (last.op = "new" /\ last'.op = "knots") =>
         (IsNonDecr(last'.out) /\ IsPermOf(last'.out, last.args.knots))
    /\ (last.op = "new" /\ last'.op = "control_points") =>
         last'.out = last.args.control_points
    /\ last'.op = "knots" => \A c \in curves : last'.out = c.knots
    /\ last'.op = "control_points" => \A c \in curves : last'.out = c.control_points

\* C6: an accepted new stores the degree and the control points as supplied
\* and the knots as the ascending permutation of the supplied ones (same
\* values with the same multiplicities); knots() yields that sequence and
\* control_points() the supplied points in order, and a repeated call yields
\* the same full sequence again.
C6_StoredSortedKnots == [][C6_Step]_vars

\* the knots of a curve built from unsorted knots with a repeated value
\* have been traversed
C6_Witness ==
    /\ last.op = "knots"
    /\ Len(last.out) = 5
    /\ last.out[1] = last.out[2]
    /\ last.out[2] # last.out[3]
    /\ last.out[4] = last.out[5]

\* C7: with checks enabled, point(t) for t below the domain minimum or above
\* the domain maximum fails the domain assertion and returns no value, and
\* for t inside the closed domain the domain assertion passes.
C7_DomainAssert ==
    (checks /\ last.op = "point") =>
        \A c \in curves :
            /\ (RLt(last.args, Lo(c)) \/ RLt(Hi(c), last.args)) =>
                  (last.out.kind = "panic" /\ last.out.why = DomainAssert
                   /\ last.out.v = None)
            /\ (RLe(Lo(c), last.args) /\ RLe(last.args, Hi(c))) =>
                  last.out.why # DomainAssert

\* both cases: a t above the domain was refused, on a curve with lo < hi
C7_Witness ==
    \E c \in curves :
        /\ checks /\ last.op = "point"
        /\ RLt(Lo(c), Hi(c))
        /\ RLt(Hi(c), last.args)
        /\ RLe(last.args, c.knots[Len(c.knots)])
        /\ last.out.why = DomainAssert

\* what C8 says of the last call
C8_Rejected ==
    last.op = "point" =>
        /\ last.out.zero_den => (last.out.kind = "panic" /\ last.out.why = AlphaAssert
                                  /\ last.out.v = None)
        /\ last.out.kind = "value" => ~last.out.nonfinite

\* C8 as claimed: a point(t) call in which a blend denominator is zero is
\* rejected with the degenerate-span failure and returns no value, and point
\* never returns a value computed from a non-finite alpha.
C8_ZeroDenRejected == C8_Rejected

\* C8, amended: with checks enabled (a build with debug assertions), a
\* point(t) call in which a blend denominator is zero is rejected with the
\* alpha assertion and returns no value, and point never returns a value
\* computed from a non-finite alpha.
C8_ZeroDenRejectedChecked == checks => C8_Rejected

C8_Witness ==
    /\ checks /\ last.op = "point"
    /\ last.out.zero_den
    /\ last.out.kind = "panic" /\ last.out.why = AlphaAssert

\* C9: knot_domain() on a constructed curve returns (knots[degree],
\* knots[knots.len() - 1 - degree]) of the stored knots and never fails, both
\* indices being within 0..knots.len()-1, also for degree 0 and for
\* control_points.len() = degree + 1.
C9_KnotDomainTotal ==
    \A c \in curves :
        /\ c.degree \in 0..(Len(c.knots) - 1)
        /\ (Len(c.knots) - 1 - c.degree) \in 0..(Len(c.knots) - 1)
        /\ last.op = "knot_domain" =>
              (last.out.kind = "value" /\ last.out.v = <<Lo(c), Hi(c)>>)

C9_Witness ==
    \E c \in curves :
        /\ c.degree = 0 /\ NumPoints(c) = 1
        /\ last.op = "knot_domain"
        /\ last.out.kind = "value"
        /\ last.out.v[1] # last.out.v[2]

\* what C10 says of one step
C10_Step ==
    curves # {} =>
        /\ curves' = curves
        /\ last'.op = "knot_domain" =>
              \A c \in curves : (last'.out.kind = "value" /\ last'.out.v = <<Lo(c), Hi(c)>>)

\* C10: point, knot_domain, control_points and knots leave degree, control
\* points and knots of the curve as they are, also when point fails; so
\* every knot_domain() returns the pair of the curve as it was before the
\* call, hence as constructed, and the curve is still there after a failed
\* point.
C10_CurveUnchanged == [][C10_Step]_vars

\* a point call has failed in the de Boor step and the curve is still there
C10_Witness ==
    /\ curves # {}
    /\ last.op = "point"
    /\ last.out.kind = "panic"
    /\ last.out.why = AlphaAssert

\* C11: two point(t) calls with the same t on the same curve, with any
\* point, knot_domain, control_points and knots calls between them, have
\* the same outcome: the same value or the same failure.
C11_SameOutcome ==
    (kept.op = "point" /\ last.op = "point" /\ last.args = kept.args)
        => last.out = kept.out

\* a call that failed the alpha assertion has been kept, and the same call
\* made again later has failed in the same way
C11_Witness ==
    /\ kept.op = "point" /\ last.op = "point" /\ last.args = kept.args
    /\ last.out.kind = "panic" /\ last.out.why = AlphaAssert
    /\ last.out = kept.out

\* C12: when several threads run point(t_k) on the same curve, their
\* steps (span search, buffer seeding, each blend) interleaved in any
\* order, every thread gets exactly the outcome of its point(t_k) run
\* alone, and the one curve is there throughout.
C12_ThreadsAgree ==
    /\ \A c \in curves : \A th \in Threads :
         threads[th].pc = "done" => threads[th].out = point(c, threads[th].t)
    /\ Cardinality(curves) = 1

\* two calls with different t have interleaved their blends and both returned
C12_Witness ==
    /\ threads[1].pc = "done" /\ threads[2].pc = "done"
    /\ threads[1].t # threads[2].t
    /\ threads[1].out.kind = "value" /\ threads[2].out.kind = "value"
    /\ threads[1].out.blends = 3 /\ threads[2].out.blends = 3
    /\ threads[1].out.v # threads[2].out.v

\* the last call was point(t) in a build without the domain assertion
ReleasePoint(c) == ~checks /\ c \in curves /\ last.op = "point"
Crashed == last.out.kind = "panic" /\ last.out.why = IndexOOB /\ last.out.v = None

\* C13 as claimed: without the domain assertion, point(t) for t below the
\* domain minimum and for t above the domain maximum ends in an
\* out-of-range index access and returns no value.
C13_OutsideCrashes ==
    \A c \in curves :
        (ReleasePoint(c) /\ (RLt(last.args, Lo(c)) \/ RLt(Hi(c), last.args)))
            => Crashed

\* C13, amended: without the domain assertion, point(t) for t below the
\* domain minimum ends in an out-of-range control-point access and returns
\* no value; for t above the domain maximum every index is in range and
\* the call returns a value computed on the last span.
C13_BelowCrashesAboveReturns ==
    \A c \in curves :
        /\ (ReleasePoint(c) /\ RLt(last.args, Lo(c))) =>
              (Crashed /\ last.out.kn = {} /\ last.out.blends = 0
               /\ \E p \in 0..c.degree : last.out.cp = 0..(p - 1)
                                          /\ last.out.i - c.degree - 1 + p < 0)
        /\ (ReleasePoint(c) /\ RLt(Hi(c), last.args)) =>
              (last.out.kind = "value" /\ last.out.why = ""
               /\ last.out.i = NumPoints(c)
               /\ last.out.cp = (NumPoints(c) - c.degree - 1)..(NumPoints(c) - 1))

\* a t above the domain of a quadratic curve has gone through all three
\* blends and come back as a finite value
C13_Witness ==
    \E c \in curves :
        /\ ReleasePoint(c) /\ c.degree = 2 /\ NumPoints(c) = 4
        /\ RLt(Lo(c), Hi(c)) /\ RLt(Hi(c), last.args)
        /\ last.out.kind = "value" /\ is_finite(last.out.v)
        /\ last.out.blends = 3

\* the last call was point(t) with t in the closed knot domain of c
InDomainPoint(c) ==
    /\ c \in curves /\ last.op = "point"
    /\ RLe(Lo(c), last.args) /\ RLe(last.args, Hi(c))

\* de Boor's recurrence as the claim writes it, indices from 0:
\* d(j, 0) = control_points[j], d(j, r) = (1 - a)*d(j-1, r-1) + a*d(j, r-1)
\* with a = (t - knots[j]) / (knots[j + degree - r + 1] - knots[j])
RECURSIVE DeBoor(_, _, _, _)
DeBoor(c, t, j, r) ==
    IF r = 0 THEN c.control_points[j + 1]
    ELSE LET a == RDiv(RSub(t, c.knots[j + 1]),
                       RSub(c.knots[j + c.degree - r + 2], c.knots[j + 1]))
         IN  RAdd(RMul(RSub(One, a), DeBoor(c, t, j - 1, r - 1)),
                  RMul(a, DeBoor(c, t, j, r - 1)))

\* C14: for every curve and every t in knot_domain() for which no blend
\* denominator is zero, point(t) returns d(k, degree) of de Boor's
\* recurrence, k + 1 being the span index that point chose.
C14_EqualsRecursiveDeBoor ==
    \A c \in curves :
        (InDomainPoint(c) /\ ~last.out.zero_den) =>
            /\ last.out.kind = "value"
            /\ last.out.v = DeBoor(c, last.args, last.out.i - 1, c.degree)

\* a quadratic curve evaluated strictly inside a span, away from the knots
C14_Witness ==
    \E c \in curves :
        /\ InDomainPoint(c) /\ ~last.out.zero_den
        /\ c.degree = 2 /\ NumPoints(c) = 4
        /\ last.args[2] = 4
        /\ last.out.kind = "value"
        /\ last.out.v \notin {c.control_points[i] : i \in DOMAIN c.control_points}
        /\ last.out.v = DeBoor(c, last.args, last.out.i - 1, 2)

\* the last call was point(t) with lo <= t < hi, past the domain assertion
InsidePoint(c) ==
    /\ InDomainPoint(c) /\ RLt(last.args, Hi(c))
    /\ last.out.why # DomainAssert

RECURSIVE LinearScan(_, _, _)
LinearScan(data, value, x) ==
    IF x >= Len(data) THEN None
    ELSE IF RLt(value, data[x + 1]) THEN Some(x)
    ELSE LinearScan(data, value, x + 1)

\* C16: on every non-decreasing sequence, repeated values and the empty
\* sequence included, upper_bounds(data, value) returns the smallest index
\* x with data[x] > value, None exactly when no element is greater, and
\* so agrees with a scan from the left.
C16_UpperBoundsIsFirstGreater ==
    last.op = "upper_bounds" =>
        LET data == last.args.data
            value == last.args.value
            r == last.out.r
        IN  /\ r = LinearScan(data, value, 0)
            /\ r = None <=> \A i \in DOMAIN data : ~RLt(value, data[i])
            /\ r # None =>
                 /\ r[1] \in 0..(Len(data) - 1)
                 /\ RLt(value, data[r[1] + 1])
                 /\ \A i \in 1..r[1] : ~RLt(value, data[i])

\* the value sought is repeated in the data and the index after its last
\* occurrence came back
C16_Witness ==
    /\ last.op = "upper_bounds"
    /\ Len(last.args.data) = 5
    /\ last.out.r = Some(3)
    /\ last.args.data[2] = last.args.value
    /\ last.args.data[3] = last.args.value

\* the last call was point(t) and it got as far as the span search
SearchedPoint(c) == c \in curves /\ last.op = "point" /\ last.out.why # DomainAssert

\* C17 as claimed: at t = knot_domain().0 on a curve whose first degree+1
\* knots are equal and below the next one (degree >= 1), point takes the
\* arm for a first exceeding index of 0, and the de Boor step started with
\* i = degree seeds its buffer from valid control-point indices.
C17_ZeroArmAtLowerEnd ==
    \A c \in curves :
        (SearchedPoint(c) /\ c.degree >= 1 /\ ClampedLo(c) /\ last.args = Lo(c))
            => (last.out.branch = "zero" /\ last.out.i = c.degree
                /\ last.out.cp = 0..c.degree)

\* C17, amended: the arm for a first exceeding index of 0 is taken exactly
\* when t is below the first knot, so never at t = knot_domain().0, where
\* the index used is at least degree + 1; it is reached only without the
\* domain assertion, and the de Boor step started with i = degree then
\* computes control-point index -1 and ends in an out-of-range access
\* before seeding anything.
C17_ZeroArmBelowFirstKnot ==
    \A c \in curves :
        SearchedPoint(c) =>
            /\ last.out.branch = "zero" <=> RLt(last.args, c.knots[1])
            /\ last.out.branch = "zero" =>
                  /\ ~checks /\ RLt(last.args, Lo(c))
                  /\ last.out.x = Some(0) /\ last.out.i = c.degree
                  /\ last.out.kind = "panic" /\ last.out.why = IndexOOB
                  /\ last.out.cp = {} /\ last.out.buf = 0
            /\ last.args = Lo(c) =>
                  (last.out.branch # "zero" /\ last.out.i >= c.degree + 1)

\* t below the repeated leading knots of a quadratic curve took the arm
C17_Witness ==
    \E c \in curves :
        /\ SearchedPoint(c) /\ c.degree = 2
        /\ c.knots[1] = c.knots[3] /\ RLt(c.knots[3], c.knots[4])
        /\ last.out.branch = "zero"
        /\ last.out.why = IndexOOB

RECURSIVE Log2Floor(_)
Log2Floor(n) == IF n <= 1 THEN 0 ELSE 1 + Log2Floor(n \div 2)

\* C18: every point(t) call ends, with a value or a failure: the loop of
\* upper_bounds makes at most floor(log2(knots.len())) + 1 iterations, the
\* scratch buffer has degree + 1 elements, and a call that returns has made
\* exactly degree*(degree+1)/2 blends (degree passes of degree - level
\* blends), a call that fails no more than that.
C18_BoundedWork ==
    \A c \in curves :
        SearchedPoint(c) =>
            LET total == (c.degree * (c.degree + 1)) \div 2
            IN  /\ last.out.kind \in {"value", "panic"}
                /\ last.out.iters \in 1..(Log2Floor(Len(c.knots)) + 1)
                /\ last.out.kind = "value" =>
                      (last.out.blends = total /\ last.out.buf = c.degree + 1)
                /\ last.out.kind = "panic" =>
                      (last.out.blends <= total /\ last.out.buf <= c.degree + 1)

\* a quadratic curve with 7 knots: 3 iterations of the search, 3 blends
C18_Witness ==
    \E c \in curves :
        /\ SearchedPoint(c) /\ c.degree = 2 /\ Len(c.knots) = 7
        /\ last.out.kind = "value"
        /\ last.out.iters = 3
        /\ last.out.blends = 3 /\ last.out.buf = 3

\* C19: for every curve (n control points) and every t in the closed
\* knot domain, the upper-bound index x is None or at least degree + 1, the
\* span index is i = min(x, n) (n for None) within degree+1..n, the seeding
\* loop reads the control-point indices j + i - degree - 1, all within
\* 0..n-1, the blend loop reads knot indices within 1..knots.len()-2, and
\* the call ends in no underflow and no out-of-range access.
C19_IndicesInRange ==
    \A c \in curves :
        InDomainPoint(c) =>
            LET n == NumPoints(c)
                x == last.out.x
                i == last.out.i
            IN  /\ last.out.why # DomainAssert
                /\ x = None \/ x[1] >= c.degree + 1
                /\ i = IF x = None \/ x[1] > n THEN n ELSE x[1]
                /\ i \in (c.degree + 1)..n
                /\ last.out.cp = {j + i - c.degree - 1 : j \in 0..c.degree}
                /\ last.out.cp \subseteq 0..(n - 1)
                /\ last.out.kn \subseteq 1..(Len(c.knots) - 2)
                /\ last.out.why \notin {SubOverflow, IndexOOB}
                /\ last.out.buf = c.degree + 1

\* at the upper end of the domain of a quadratic curve the blends have read
\* the lowest and the highest knot index the claim allows
C19_Witness ==
    \E c \in curves :
        /\ InDomainPoint(c) /\ c.degree = 2 /\ NumPoints(c) = 3
        /\ last.args = Hi(c)
        /\ last.out.kind = "value"
        /\ last.out.i = 3
        /\ 1 \in last.out.kn /\ (Len(c.knots) - 2) \in last.out.kn

\* t is the upper end of the domain and the knot before it is equal to it:
\* knots[n-1] = knots[n], indices from 0
UpperEndOnEmptySpan(c) ==
    last.args = Hi(c) /\ c.knots[NumPoints(c)] = c.knots[NumPoints(c) + 1]

\* v lies between the least and the greatest of the control points read
WithinSeeded(c, v) ==
    /\ \E p \in last.out.cp : RLe(c.control_points[p + 1], v)
    /\ \E p \in last.out.cp : RLe(v, c.control_points[p + 1])

\* C20: for every curve of degree >= 1 and every t in the closed knot
\* domain: if t = knot_domain().1 and knots[n-1] = knots[n], a blend
\* denominator is zero; in every other case every blend denominator is
\* above zero, every alpha lies in [0,1], and the call returns a value
\* between the least and the greatest of the degree + 1 seeded control
\* points.
C20_AlphaInUnitInterval ==
    \A c \in curves :
        (InDomainPoint(c) /\ c.degree >= 1) =>
            IF UpperEndOnEmptySpan(c)
            THEN last.out.zero_den /\ ~last.out.den_pos
            ELSE /\ ~last.out.zero_den
                 /\ last.out.den_pos /\ last.out.alpha_01
                 /\ last.out.blends = (c.degree * (c.degree + 1)) \div 2
                 /\ last.out.kind = "value"
                 /\ WithinSeeded(c, last.out.v)

\* a quadratic curve evaluated strictly inside its domain: a value strictly
\* between two of the seeded control points
C20_Witness ==
    \E c \in curves :
        /\ InDomainPoint(c) /\ c.degree = 2
        /\ ~UpperEndOnEmptySpan(c)
        /\ RLt(Lo(c), last.args) /\ RLt(last.args, Hi(c))
        /\ last.out.alpha_01 /\ last.out.blends = 3
        /\ last.out.v \notin {c.control_points[p + 1] : p \in last.out.cp}
        /\ WithinSeeded(c, last.out.v)

\* C21: for every curve that new accepts, whatever the order and the
\* multiplicities of the supplied knots, degree < knots.len() - 1 - degree
\* and knot_domain() returns (lo, hi) with lo <= hi; lo = hi is possible.
C21_DomainOrdered ==
    \A c \in curves :
        /\ c.degree < Len(c.knots) - 1 - c.degree
        /\ knot_domain(c).kind = "value"
        /\ RLe(knot_domain(c).v[1], knot_domain(c).v[2])
        /\ last.op = "knot_domain" =>
              (last.out.kind = "value" /\ RLe(last.out.v[1], last.out.v[2]))
        /\ (last.op = "new" /\ last.out.kind = "ok") =>
              IsPermOf(c.knots, last.args.knots)

\* knot_domain() has returned lo = hi on a curve whose knots are not all
\* equal
C21_Witness ==
    \E c \in curves :
        /\ last.op = "knot_domain" /\ last.out.kind = "value"
        /\ last.out.v[1] = last.out.v[2]
        /\ c.knots[1] # c.knots[Len(c.knots)]
        /\ c.degree >= 1

\* new has accepted knots supplied out of order and the domain of the curve
\* is not inverted
C21_UnsortedAccepted ==
    \E c \in curves :
        /\ last.op = "new" /\ last.out.kind = "ok"
        /\ ~IsNonDecr(last.args.knots)
        /\ RLt(knot_domain(c).v[1], knot_domain(c).v[2])

====
